---- MODULE Spec2Model ----
(***************************************************************************)
(* A model of the HTTP/1.1 request parser of rust-webserver:               *)
(*   src/src/http/request/util.rs  StreamReader, ParseError, TokenType     *)
(*   src/src/http/request/mod.rs   Request, Method, RequestBuilder         *)
(* Bytes are the integers 0..255; a String is the sequence of its UTF-8    *)
(* bytes; Option<T> is a sequence of length 0 (None) or 1 (Some).          *)
(***************************************************************************)
EXTENDS Integers, Sequences, FiniteSets, TLC

VARIABLES
    input,     \* the bytes the source delivers before it ends or fails
    stream,    \* the bytes the source has not yet handed to a read
    it,        \* the StreamReader: [buffer, index, read]
    entry,     \* the function the caller called: "line", "headers", "from", "cursor",
               \* "error", "builder"
    pc,        \* where the parser is: "method", "target", "version", "headers", "done";
               \* "build" while a caller fills a builder
    acc,       \* the Vec<u8> the method or target loop is filling
    vpos,      \* how many bytes of the version part have been matched
    digits,    \* the version digits parsed so far: <<>>, <<major>>, <<major, minor>>
    state,     \* the header FSM's ParserState
    builder,   \* the RequestBuilder
    outcome,   \* "running", "Ok", "EOF", "IllegalCharacter", "panic"
    request,   \* the Option<Request> the caller receives
    first,     \* the outcome and request of an earlier parse of the same bytes
    calls,     \* the cursor or builder calls made directly by a caller, latest last
    err,       \* a ParseError value held by a caller
    code,      \* the Option<Option<u16>> a caller got from http_response_code
    taken,     \* the bytes next() has handed out and step_back() has not given back
    dispatches \* how many times the header FSM's match ran on the latest byte

vars == <<input, stream, it, entry, pc, acc, vpos, digits, state,
          builder, outcome, request, first, calls, err, code, taken, dispatches>>

(***************************************************************************)
(* Bounds of the model.                                                    *)
(***************************************************************************)
\* The length of StreamReader's buffer (1024 in the source, util.rs:11).
BufSize == 2
\* The longest request target drawn.
MaxTargetLen == 2
\* The longest header name and the longest text after the colon drawn.
MaxNameLen == 2
MaxValueLen == 2
\* The most header lines of one block.
MaxLines == 2
\* The longest source of the cursor specification.
MaxStream == 3
\* How many cursor calls the cursor specification remembers.
MaxCalls == 3
\* How many setter calls a caller makes on one builder.
MaxSetters == 4

(***************************************************************************)
(* Bytes the source names.                                                 *)
(***************************************************************************)
HT == 9
LF == 10
CR == 13
SP == 32
DOT == 46
ZERO == 48
NINE == 57
COLON == 58

None == <<>>
Some(x) == <<x>>

Min(a, b) == IF a < b THEN a ELSE b

Byte == 0..255

(***************************************************************************)
(* util.rs: StreamReader                                                   *)
(***************************************************************************)
\* StreamReader::from: a zeroed buffer, index 0, read 0.
StreamReaderFrom == [buffer |-> [i \in 1..BufSize |-> 0], index |-> 0, read |-> 0]

\* What one call of stream.read(&mut buffer) may return on source s:
\* Ok(n) with 1 <= n <= the buffer's length while bytes remain, and after the
\* last byte Ok(0) or Err(_), written -1.
ReadResults(s) ==
    IF s = <<>> THEN {0, -1} ELSE 1..Min(BufSize, Len(s))

\* A read that leaves index where it was.
ReadKeepsIndex(r, s, n) ==
    IF n < 0
    THEN [it |-> r, stream |-> s, ok |-> FALSE]
    ELSE [it |-> [buffer |-> [i \in 1..BufSize |->
                                 IF i <= n THEN s[i] ELSE r.buffer[i]],
                  index |-> r.index,
                  read |-> n],
          stream |-> SubSeq(s, n + 1, Len(s)),
          ok |-> TRUE]

\* A read that starts a buffer of two bytes or more at its second byte.
ReadDropsFirst(r, s, n) ==
    IF n < 0
    THEN [it |-> r, stream |-> s, ok |-> FALSE]
    ELSE [it |-> [buffer |-> [i \in 1..BufSize |->
                                 IF i <= n THEN s[i] ELSE r.buffer[i]],
                  index |-> IF n >= 2 THEN 1 ELSE 0,
                  read |-> n],
          stream |-> SubSeq(s, n + 1, Len(s)),
          ok |-> TRUE]

\* StreamReader::read with the source answering n.
Read(r, s, n) ==
    IF n < 0
    THEN [it |-> r, stream |-> s, ok |-> FALSE]
    ELSE [it |-> [buffer |-> [i \in 1..BufSize |->
                                 IF i <= n THEN s[i] ELSE r.buffer[i]],
                  index |-> 0,
                  read |-> n],
          stream |-> SubSeq(s, n + 1, Len(s)),
          ok |-> TRUE]

\* The tail of next(): hand out buffer[index] and advance.
Yield(r, s) ==
    [it |-> [r EXCEPT !.index = r.index + 1],
     stream |-> s,
     ret |-> Some(r.buffer[r.index + 1]),
     didRead |-> FALSE]

\* Iterator::next with the source answering n if it is asked.
IterNext(r, s, n) ==
    IF r.index >= r.read
    THEN LET rd == Read(r, s, n) IN
         IF ~rd.ok
         THEN [it |-> rd.it, stream |-> rd.stream, ret |-> None, didRead |-> TRUE]
         ELSE IF rd.it.index >= rd.it.read
         THEN [it |-> rd.it, stream |-> rd.stream, ret |-> None, didRead |-> TRUE]
         ELSE [Yield(rd.it, rd.stream) EXCEPT !.didRead = TRUE]
    ELSE Yield(r, s)

\* A step_back that refuses to go back to the buffer's first byte.
StepBackOpFromSecond(r) ==
    IF r.index > 1
    THEN [it |-> [r EXCEPT !.index = r.index - 1], ret |-> Some("unit")]
    ELSE [it |-> r, ret |-> None]

\* A step_back that empties the buffer when it fails.
StepBackOpForgets(r) ==
    IF r.index > 0
    THEN [it |-> [r EXCEPT !.index = r.index - 1], ret |-> Some("unit")]
    ELSE [it |-> [r EXCEPT !.read = 0], ret |-> None]

\* StreamReader::step_back.
StepBackOp(r) ==
    IF r.index > 0
    THEN [it |-> [r EXCEPT !.index = r.index - 1], ret |-> Some("unit")]
    ELSE [it |-> r, ret |-> None]

(***************************************************************************)
(* util.rs: TokenType                                                      *)
(***************************************************************************)
\* A token class that lets the space through.
IsTCharOrSpace(c) ==
    \/ c \in {32, 33, 35, 36, 37, 38, 39, 42, 43, 45, 46, 94, 95, 96, 124, 126}
    \/ c \in 48..57
    \/ c \in 97..122
    \/ c \in 65..90

\* The bytes TokenType::from classifies as TChar.
IsTChar(c) ==
    \/ c \in {33, 35, 36, 37, 38, 39, 42, 43, 45, 46, 94, 95, 96, 124, 126}
    \/ c \in 48..57
    \/ c \in 97..122
    \/ c \in 65..90

TokenTypeFrom(c) ==
    IF IsTChar(c) THEN [tag |-> "TChar", c |-> c] ELSE [tag |-> "Invalid", c |-> c]

(***************************************************************************)
(* String::from_utf8: Ok(the same bytes) when they are valid UTF-8.        *)
(***************************************************************************)
RECURSIVE ValidUtf8(_)
ValidUtf8(s) ==
    IF s = <<>> THEN TRUE
    ELSE LET b == s[1]
             n == Len(s)
             Cont(i) == i <= n /\ s[i] \in 128..191
         IN  IF b < 128 THEN ValidUtf8(Tail(s))
             ELSE IF b \in 194..223
             THEN Cont(2) /\ ValidUtf8(SubSeq(s, 3, n))
             ELSE IF b \in 224..239
             THEN /\ Cont(2) /\ Cont(3)
                  /\ (b = 224 => s[2] >= 160)
                  /\ (b = 237 => s[2] <= 159)
                  /\ ValidUtf8(SubSeq(s, 4, n))
             ELSE IF b \in 240..244
             THEN /\ Cont(2) /\ Cont(3) /\ Cont(4)
                  /\ (b = 240 => s[2] >= 144)
                  /\ (b = 244 => s[2] <= 143)
                  /\ ValidUtf8(SubSeq(s, 5, n))
             ELSE FALSE

FromUtf8(s) == IF ValidUtf8(s) THEN Some(s) ELSE None

(***************************************************************************)
(* mod.rs: Method                                                          *)
(***************************************************************************)
Fixed(tag) == [tag |-> tag, name |-> <<>>]
Custom(name) == [tag |-> "Custom", name |-> name]

\* A Method::from that compares the start of the name only.
MethodFromPrefix(name) ==
    LET Starts(v) == Len(name) >= Len(v) /\ SubSeq(name, 1, Len(v)) = v IN
    IF Starts(<<71, 69, 84>>) THEN Fixed("Get")
    ELSE IF Starts(<<80, 79, 83, 84>>) THEN Fixed("Post")
    ELSE IF Starts(<<80, 65, 84, 67, 72>>) THEN Fixed("Patch")
    ELSE IF Starts(<<68, 69, 76, 69, 84, 69>>) THEN Fixed("Delete")
    ELSE IF Starts(<<80, 85, 84>>) THEN Fixed("Put")
    ELSE IF Starts(<<72, 69, 65, 68>>) THEN Fixed("Head")
    ELSE IF Starts(<<67, 79, 78, 78, 69, 67, 84>>) THEN Fixed("Connect")
    ELSE IF Starts(<<79, 80, 84, 73, 79, 78, 83>>) THEN Fixed("Options")
    ELSE IF Starts(<<84, 82, 65, 67, 69>>) THEN Fixed("Trace")
    ELSE Custom(name)

\* Method::from: the chain of comparisons, in source order.
MethodFrom(name) ==
    IF name = <<71, 69, 84>> THEN Fixed("Get")
    ELSE IF name = <<80, 79, 83, 84>> THEN Fixed("Post")
    ELSE IF name = <<80, 65, 84, 67, 72>> THEN Fixed("Patch")
    ELSE IF name = <<68, 69, 76, 69, 84, 69>> THEN Fixed("Delete")
    ELSE IF name = <<80, 85, 84>> THEN Fixed("Put")
    ELSE IF name = <<72, 69, 65, 68>> THEN Fixed("Head")
    ELSE IF name = <<67, 79, 78, 78, 69, 67, 84>> THEN Fixed("Connect")
    ELSE IF name = <<79, 80, 84, 73, 79, 78, 83>> THEN Fixed("Options")
    ELSE IF name = <<84, 82, 65, 67, 69>> THEN Fixed("Trace")
    ELSE Custom(name)

(***************************************************************************)
(* mod.rs: RequestBuilder                                                  *)
(***************************************************************************)
EmptyMap == [k \in {} |-> <<>>]

RequestBuilderNew ==
    [version |-> None, method |-> None, target |-> None,
     headers |-> EmptyMap, body |-> None]

set_version(b, ma, mi) == [b EXCEPT !.version = Some(<<ma, mi>>)]
set_method(b, m) == [b EXCEPT !.method = Some(m)]
set_target(b, t) == [b EXCEPT !.target = Some(t)]
set_body(b, d) == [b EXCEPT !.body = Some(d)]

\* An insert that keeps the entry a key already has.
add_header_keep_first(b, key, val) ==
    [b EXCEPT !.headers = [k \in (DOMAIN b.headers) \cup {key} |->
                              IF k \in DOMAIN b.headers THEN b.headers[k] ELSE val]]

\* HashMap::insert: the key's entry is replaced or created.
add_header(b, key, val) ==
    [b EXCEPT !.headers = [k \in (DOMAIN b.headers) \cup {key} |->
                              IF k = key THEN val ELSE b.headers[k]]]

\* An into_request that asks for a body as well.
into_request_needs_body(b) ==
    IF b.version # None /\ b.method # None /\ b.target # None /\ b.body # None
    THEN Some([version |-> b.version[1], method |-> b.method[1],
               target |-> b.target[1], headers |-> b.headers, body |-> b.body])
    ELSE None

into_request(b) ==
    IF b.version # None /\ b.method # None /\ b.target # None
    THEN Some([version |-> b.version[1], method |-> b.method[1],
               target |-> b.target[1], headers |-> b.headers, body |-> b.body])
    ELSE None

(***************************************************************************)
(* util.rs: ParseError.  <<"EOF">>, <<"IllegalCharacter">> or              *)
(* <<"Generic", http_response>>; the boxed cause of Generic is opaque and  *)
(* is left out.                                                            *)
(***************************************************************************)
EOF == <<"EOF">>
IllegalCharacter == <<"IllegalCharacter">>

new_generic(http_response) == <<"Generic", http_response>>

new_bad_request == new_generic(400)

\* A response code that is 400 for every error but EOF.
http_response_code_400(e) == IF e = EOF THEN None ELSE Some(400)

http_response_code(e) ==
    IF e = EOF THEN None
    ELSE IF e = IllegalCharacter THEN Some(400)
    ELSE Some(e[2])

(***************************************************************************)
(* mod.rs: the request line.  Each operator is one iteration of the        *)
(* function's loop on the Option<u8> that it.next() returned; it answers   *)
(* "more" (loop again), "Ok" (return Ok), "Err" (return Err) or "panic".   *)
(***************************************************************************)
More(a) == [tag |-> "more", val |-> a]
Ok(v) == [tag |-> "Ok", val |-> v]
Err(e) == [tag |-> "Err", val |-> e[1]]
Panic == [tag |-> "panic", val |-> "unwrap"]

\* A parse_request_method that refuses a space with no byte before it.
MethodStepNonEmpty(method, ret) ==
    IF ret = None THEN Err(EOF)
    ELSE LET t == TokenTypeFrom(ret[1]) IN
         IF t.tag = "TChar" THEN More(Append(method, t.c))
         ELSE IF t.c = SP /\ method # <<>> THEN Ok(MethodFrom(method))
         ELSE Err(IllegalCharacter)

\* parse_request_method: the body of `for b in it`, and the Err(EOF) after it.
MethodStep(method, ret) ==
    IF ret = None THEN Err(EOF)
    ELSE LET t == TokenTypeFrom(ret[1]) IN
         IF t.tag = "TChar" THEN More(Append(method, t.c))
         ELSE IF t.c = SP THEN Ok(MethodFrom(method))
         ELSE Err(IllegalCharacter)

\* The bytes parse_request_target pushes.
IsTargetByte(b) ==
    \/ b = 33
    \/ b \in 35..59
    \/ b = 61
    \/ b \in 63..91
    \/ b \in 93..122
    \/ b = 124
    \/ b = 126

\* parse_request_target: the body of `for b in it`, and the Err(EOF) after it.
TargetStep(target, ret) ==
    IF ret = None THEN Err(EOF)
    ELSE LET b == ret[1] IN
         IF IsTargetByte(b) THEN More(Append(target, b))
         ELSE IF b = SP
         THEN (IF FromUtf8(target) = None THEN Panic ELSE Ok(FromUtf8(target)[1]))
         ELSE Err(IllegalCharacter)

\* "HTTP/".bytes()
HttpSlash == <<72, 84, 84, 80, 47>>

\* A digit test that lets ':' through (n <= 58).
IsDigitOffByOne(n) == n >= ZERO /\ n <= NINE + 1

\* `n >= 48 && n <= 57`
IsDigit(n) == n >= ZERO /\ n <= NINE

\* A digit kept as its ASCII code.
DigitValueAscii(n) == n

\* `n - 48` on a u8 known to be a digit
DigitValue(n) == n - 48

\* parse_request_version: its k-th it.next() and the match on it (k = pos + 1).
\* ds holds the digits bound so far (major, then minor).
VersionStep(pos, ds, ret) ==
    IF ret = None THEN Err(EOF)
    ELSE LET b == ret[1] IN
         IF pos < Len(HttpSlash)
         THEN (IF b = HttpSlash[pos + 1] THEN More(ds) ELSE Err(IllegalCharacter))
         ELSE IF pos = 5
         THEN (IF IsDigit(b) THEN More(<<DigitValue(b)>>) ELSE Err(IllegalCharacter))
         ELSE IF pos = 6
         THEN (IF b = DOT THEN More(ds) ELSE Err(IllegalCharacter))
         ELSE IF pos = 7
         THEN (IF IsDigit(b) THEN More(<<ds[1], DigitValue(b)>>) ELSE Err(IllegalCharacter))
         ELSE IF pos = 8
         THEN (IF b = CR THEN More(ds) ELSE Err(IllegalCharacter))
         ELSE (IF b = LF THEN Ok(ds) ELSE Err(IllegalCharacter))

(***************************************************************************)
(* mod.rs: parse_headers.  ParserState is [tag, name, value]; the fields a *)
(* variant does not have are empty.                                        *)
(***************************************************************************)
PState(tag, name, value) == [tag |-> tag, name |-> name, value |-> value]
StartState == PState("Start", <<>>, <<>>)

\* What the inner loop leaves: the state, the builder, how many times the
\* match ran on the byte, and "next" (break: take the next byte), "done"
\* (break 'outer), "IllegalCharacter" or "panic".
Left(st, bld, n, res) == [state |-> st, builder |-> bld, dispatches |-> n, res |-> res]

\* A Value state that pushes the bytes from 0x80 on as well.
IsValueByteOrHigh(b) == b = HT \/ b \in 32..126 \/ b \in 128..255

\* The bytes the Value state pushes.
IsValueByte(b) == b = HT \/ b \in 32..126

\* A Value state that drops 0x81..0xFF and refuses 0x80.
IsDroppedByteFrom81(b) == b \in 129..255

\* The bytes the Value state drops.
IsDroppedByte(b) == b \in 128..255

\* The inner `loop { match state {...} break; }` on byte b; `continue` is the
\* recursive call.
RECURSIVE Dispatch(_, _, _, _)
Dispatch(st, b, bld, n) ==
    IF st.tag = "Start"
    THEN IF b = CR
         THEN Left(PState("FinalNewLine", <<>>, <<>>), bld, n, "next")
         ELSE Dispatch(PState("Name", <<>>, <<>>), b, bld, n + 1)
    ELSE IF st.tag = "Name"
    THEN LET t == TokenTypeFrom(b) IN
         IF t.tag = "TChar"
         THEN Left(PState("Name", Append(st.name, t.c), <<>>), bld, n, "next")
         ELSE IF t.c = COLON
         THEN (IF FromUtf8(st.name) = None
               THEN Left(st, bld, n, "panic")
               ELSE Left(PState("ValueLeadingWS", FromUtf8(st.name)[1], <<>>),
                         bld, n, "next"))
         ELSE Left(st, bld, n, "IllegalCharacter")
    ELSE IF st.tag = "ValueLeadingWS"
    THEN IF b = SP \/ b = HT
         THEN Left(st, bld, n, "next")
         ELSE Dispatch(PState("Value", st.name, <<>>), b, bld, n + 1)
    ELSE IF st.tag = "Value"
    THEN IF IsValueByte(b)
         THEN Left(PState("Value", st.name, Append(st.value, b)), bld, n, "next")
         ELSE IF IsDroppedByte(b)
         THEN Left(st, bld, n, "next")
         ELSE IF b = CR
         THEN (IF FromUtf8(st.value) = None
               THEN Left(st, bld, n, "panic")
               ELSE Left(PState("NewLine", <<>>, <<>>),
                         add_header(bld, st.name, FromUtf8(st.value)[1]), n, "next"))
         ELSE Left(st, bld, n, "IllegalCharacter")
    ELSE IF st.tag = "NewLine"
    THEN IF b = LF
         THEN Left(StartState, bld, n, "next")
         ELSE Left(st, bld, n, "IllegalCharacter")
    ELSE IF b = LF
         THEN Left(st, bld, n, "done")
         ELSE Left(st, bld, n, "IllegalCharacter")

\* An 'outer whose Start takes the first byte of a name for itself and
\* leaves Name to begin with the byte after it.
HeaderStepSkipsFirst(st, ret, bld) ==
    IF ret = None THEN Left(st, bld, 0, "EOF")
    ELSE IF st.tag = "Start" /\ ret[1] # CR
    THEN Left(PState("Name", <<>>, <<>>), bld, 1, "next")
    ELSE Dispatch(st, ret[1], bld, 1)

\* An 'outer whose Value state takes a bare LF for the end of the line.
HeaderStepBareLF(st, ret, bld) ==
    IF ret = None THEN Left(st, bld, 0, "EOF")
    ELSE IF st.tag = "Value" /\ ret[1] = LF
    THEN Left(StartState, add_header(bld, st.name, st.value), 1, "next")
    ELSE Dispatch(st, ret[1], bld, 1)

\* An 'outer that asks the cursor again when it has no byte to give.
HeaderStepSpins(st, ret, bld) ==
    IF ret = None THEN Left(st, bld, 0, "next")
    ELSE Dispatch(st, ret[1], bld, 1)

\* An 'outer that takes the end of the stream at the start of a line for the
\* end of the block.
HeaderStepLenient(st, ret, bld) ==
    IF ret = None
    THEN (IF st.tag = "Start" THEN Left(st, bld, 0, "done") ELSE Left(st, bld, 0, "EOF"))
    ELSE Dispatch(st, ret[1], bld, 1)

\* One iteration of 'outer: it.next(), Err(EOF) on None, else the inner loop.
HeaderStep(st, ret, bld) ==
    IF ret = None THEN Left(st, bld, 0, "EOF")
    ELSE Dispatch(st, ret[1], bld, 1)

(***************************************************************************)
(* The byte sequences the source is made to deliver.                       *)
(***************************************************************************)
SeqsUpTo(S, n) == UNION {[1..k -> S] : k \in 0..n}

\* Every prefix of a sequence of W, alone and followed by one byte of X.
Deviations(W, X) ==
    UNION {{SubSeq(w, 1, k) \o t : k \in 0..Len(w), t \in {<<>>} \cup {<<x>> : x \in X}}
           : w \in W}

\* Bytes on either side of every range the parser tests: NUL, HT, LF, CR, SP,
\* '"', '/', ':', '<', '@', '\', '{', DEL, 0x80, 0xFF.
OddBytes == {0, 9, 10, 13, 32, 34, 47, 58, 60, 64, 92, 123, 127, 128, 255}

\* The names of the nine variants of Method other than Custom.
GET == <<71, 69, 84>>
Verbs ==
    {GET, <<80, 79, 83, 84>>, <<80, 65, 84, 67, 72>>, <<68, 69, 76, 69, 84, 69>>,
     <<80, 85, 84>>, <<72, 69, 65, 68>>, <<67, 79, 78, 78, 69, 67, 84>>,
     <<79, 80, 84, 73, 79, 78, 83>>, <<84, 82, 65, 67, 69>>}

\* Other method tokens: "", "get", "GETS".
OtherMethods == {<<>>, <<103, 101, 116>>, <<71, 69, 84, 83>>}

\* Targets over '/', 'a', '|' and '?'.
Targets == SeqsUpTo({47, 97, 124, 63}, MaxTargetLen)

\* M SP T SP "HTTP/" a "." b CR LF
LineOf(m, t, a, b) == m \o <<SP>> \o t \o <<SP>> \o HttpSlash \o <<a, DOT, b, CR, LF>>

\* The request lines whose prefixes and one-byte deviations are drawn:
\* "GET / HTTP/1.1", "get  HTTP/9.0", " /| HTTP/0.9".
BaseLine1 == LineOf(GET, <<47>>, 49, 49)
BaseLine2 == LineOf(<<103, 101, 116>>, <<>>, 57, 48)
BaseLine3 == LineOf(<<>>, <<47, 124>>, 48, 57)
BaseLines == {BaseLine1, BaseLine2, BaseLine3}

LineInputs ==
    {LineOf(m, t, 49, 49) : m \in Verbs \cup OtherMethods, t \in Targets}
    \cup {LineOf(GET, <<47>>, a, b) : a \in ZERO..NINE, b \in ZERO..NINE}
    \cup Deviations(BaseLines, OddBytes)

\* name ":" text CR LF, the text being optional whitespace and the value.
HeaderLineOf(name, text) == name \o <<COLON>> \o text \o <<CR, LF>>

\* Names over 'A' and 'a'; texts over '1', SP, HT, 0x80 and 0xFF.
Names == SeqsUpTo({65, 97}, MaxNameLen)
Texts == SeqsUpTo({49, SP, HT, 128, 255}, MaxValueLen)

\* Lines whose names collide: "A" or "a" with "1" or "2".
ShortLines == {HeaderLineOf(<<n>>, <<v>>) : n \in {65, 97}, v \in {49, 50}}

RECURSIVE Concat(_)
Concat(ss) == IF ss = <<>> THEN <<>> ELSE ss[1] \o Concat(Tail(ss))

\* A header block: the lines, then the blank line.
BlockOf(ls) == Concat(ls) \o <<CR, LF>>

\* The blocks whose prefixes and one-byte deviations are drawn:
\* "", "A:1", "a: \t1 \x80" then "A:\xFF".
BaseBlock1 == BlockOf(<<>>)
BaseBlock2 == BlockOf(<<HeaderLineOf(<<65>>, <<49>>)>>)
BaseBlock3 ==
    BlockOf(<<HeaderLineOf(<<97>>, <<SP, HT, 49, SP, 128>>), HeaderLineOf(<<65>>, <<255>>)>>)
BaseBlocks == {BaseBlock1, BaseBlock2, BaseBlock3}

\* "Bad Name: v" CR LF
BadNameExample == <<66, 97, 100, 32, 78, 97, 109, 101, 58, 32, 118, 13, 10>>

HeaderInputs ==
    {BlockOf(<<HeaderLineOf(n, t)>>) : n \in Names, t \in Texts}
    \cup {BlockOf(ls) : ls \in SeqsUpTo(ShortLines, MaxLines)}
    \cup Deviations(BaseBlocks, OddBytes)
    \cup {BadNameExample}

\* Whole requests: a base line, then a base block.
BaseRequests ==
    {BaseLine1 \o BaseBlock3, BaseLine2 \o BaseBlock1, BaseLine3 \o BaseBlock2}

\* The whole requests, their prefixes and their one-byte deviations.
FromInputs == Deviations(BaseRequests, OddBytes)

(***************************************************************************)
(* The parser's steps.  One action is one it.next() and everything the     *)
(* caller chain does with the byte before the next it.next().              *)
(***************************************************************************)
\* The bytes handed out so far, after a next() that returned ret.
Took(t, ret) == IF ret = None THEN t ELSE Append(t, ret[1])

\* The bytes handed out so far, after a step_back() that returned ret: a
\* step_back that succeeds makes the next next() hand out the latest byte
\* again.
GaveBack(t, ret) ==
    IF ret = None \/ t = <<>> THEN t ELSE SubSeq(t, 1, Len(t) - 1)

\* Request::from's last line: Ok(builder.into_request().unwrap()).
FromResult(bld) ==
    IF into_request(bld) = None
    THEN [outcome |-> "panic", request |-> None]
    ELSE [outcome |-> "Ok", request |-> into_request(bld)]

\* parse_request_method under parse_request_line: set_method on Ok, `?` on Err.
ParseMethod ==
    /\ pc = "method"
    /\ \E n \in ReadResults(stream) :
         LET r == IterNext(it, stream, n)
             s == MethodStep(acc, r.ret)
         IN  /\ it' = r.it
             /\ stream' = r.stream
             /\ taken' = Took(taken, r.ret)
             /\ acc' = IF s.tag = "more" THEN s.val ELSE <<>>
             /\ builder' = IF s.tag = "Ok" THEN set_method(builder, s.val) ELSE builder
             /\ pc' = IF s.tag = "more" THEN "method"
                      ELSE IF s.tag = "Ok" THEN "target" ELSE "done"
             /\ outcome' = IF s.tag = "Err" THEN s.val ELSE outcome
    /\ UNCHANGED <<input, entry, vpos, digits, state, request, first,
                   calls, err, code, dispatches>>

\* parse_request_target under parse_request_line: set_target on Ok, `?` on Err.
ParseTarget ==
    /\ pc = "target"
    /\ \E n \in ReadResults(stream) :
         LET r == IterNext(it, stream, n)
             s == TargetStep(acc, r.ret)
         IN  /\ it' = r.it
             /\ stream' = r.stream
             /\ taken' = Took(taken, r.ret)
             /\ acc' = IF s.tag = "more" THEN s.val ELSE <<>>
             /\ builder' = IF s.tag = "Ok" THEN set_target(builder, s.val) ELSE builder
             /\ pc' = IF s.tag = "more" THEN "target"
                      ELSE IF s.tag = "Ok" THEN "version" ELSE "done"
             /\ outcome' = IF s.tag = "Err" THEN s.val
                           ELSE IF s.tag = "panic" THEN "panic" ELSE outcome
    /\ UNCHANGED <<input, entry, vpos, digits, state, request, first,
                   calls, err, code, dispatches>>

\* parse_request_version under parse_request_line: set_version on Ok and
\* Ok(()) to the caller; under Request::from, parse_headers comes next.
ParseVersion ==
    /\ pc = "version"
    /\ \E n \in ReadResults(stream) :
         LET r == IterNext(it, stream, n)
             s == VersionStep(vpos, digits, r.ret)
         IN  /\ it' = r.it
             /\ stream' = r.stream
             /\ taken' = Took(taken, r.ret)
             /\ vpos' = IF s.tag = "more" THEN vpos + 1 ELSE 0
             /\ digits' = IF s.tag = "more" THEN s.val ELSE <<>>
             /\ builder' = IF s.tag = "Ok"
                           THEN set_version(builder, s.val[1], s.val[2])
                           ELSE builder
             /\ pc' = IF s.tag = "more" THEN "version"
                      ELSE IF s.tag = "Ok" /\ entry = "from" THEN "headers" ELSE "done"
             /\ outcome' = IF s.tag = "Err" THEN s.val
                           ELSE IF s.tag = "Ok" /\ entry = "line" THEN "Ok" ELSE outcome
    /\ UNCHANGED <<input, entry, acc, state, request, first, calls, err, code,
                   dispatches>>

\* parse_headers: one iteration of 'outer; under Request::from the block's
\* end is followed by into_request().unwrap().
ParseHeaders ==
    /\ pc = "headers"
    /\ \E n \in ReadResults(stream) :
         LET r == IterNext(it, stream, n)
             s == HeaderStep(state, r.ret, builder)
             fin == FromResult(s.builder)
         IN  /\ it' = r.it
             /\ stream' = r.stream
             /\ taken' = Took(taken, r.ret)
             /\ state' = s.state
             /\ builder' = s.builder
             /\ dispatches' = s.dispatches
             /\ pc' = IF s.res = "next" THEN "headers" ELSE "done"
             /\ outcome' = IF s.res = "next" THEN outcome
                           ELSE IF s.res # "done" THEN s.res
                           ELSE IF entry = "from" THEN fin.outcome ELSE "Ok"
             /\ request' = IF s.res = "done" /\ entry = "from" THEN fin.request
                           ELSE request
    /\ UNCHANGED <<input, entry, acc, vpos, digits, first, calls, err, code>>

\* A caller parses the same bytes again: Request::from makes a new builder
\* and a new cursor, on a source that delivers `input` again.
Reparse ==
    /\ entry = "from"
    /\ pc = "done"
    /\ first = None
    /\ first' = Some([outcome |-> outcome, request |-> request])
    /\ stream' = input
    /\ it' = StreamReaderFrom
    /\ builder' = RequestBuilderNew
    /\ state' = StartState
    /\ acc' = <<>>
    /\ vpos' = 0
    /\ digits' = <<>>
    /\ pc' = "method"
    /\ outcome' = "running"
    /\ request' = None
    /\ taken' = <<>>
    /\ dispatches' = 0
    /\ UNCHANGED <<input, entry, calls, err, code>>

(***************************************************************************)
(* A caller that drives the cursor itself.                                 *)
(***************************************************************************)
Call(op, ret, didRead) == [op |-> op, ret |-> ret, didRead |-> didRead]

\* The latest MaxCalls calls.
Remember(cs, c) ==
    IF Len(cs) >= MaxCalls THEN Append(Tail(cs), c) ELSE Append(cs, c)

CallNext ==
    /\ entry = "cursor"
    /\ \E n \in ReadResults(stream) :
         LET r == IterNext(it, stream, n) IN
         /\ it' = r.it
         /\ stream' = r.stream
         /\ calls' = Remember(calls, Call("next", r.ret, r.didRead))
         /\ taken' = Took(taken, r.ret)
    /\ UNCHANGED <<input, entry, pc, acc, vpos, digits, state, builder, outcome,
                   request, first, err, code, dispatches>>

CallStepBack ==
    /\ entry = "cursor"
    /\ LET r == StepBackOp(it) IN
         /\ it' = r.it
         /\ calls' = Remember(calls, Call("step_back", r.ret, FALSE))
         /\ taken' = GaveBack(taken, r.ret)
    /\ UNCHANGED <<input, stream, entry, pc, acc, vpos, digits, state, builder,
                   outcome, request, first, err, code, dispatches>>

(***************************************************************************)
(* A caller that fills a RequestBuilder itself.  calls holds every call    *)
(* made on the builder and its argument.                                   *)
(***************************************************************************)
SetterCall(op, arg) == [op |-> op, arg |-> arg]

\* The arguments drawn for the setters.
VersionArgs == {<<1, 1>>, <<0, 9>>}
MethodArgs == {Fixed("Get"), Custom(<<>>)}
TargetArgs == {<<>>, <<47>>}
BodyArgs == {<<>>, <<1>>}
HeaderArgs == {<<<<65>>, <<49>>>>, <<<<65>>, <<50>>>>, <<<<97>>, <<49>>>>}

SetVersion ==
    /\ pc = "build"
    /\ Len(calls) < MaxSetters
    /\ \E v \in VersionArgs :
         /\ builder' = set_version(builder, v[1], v[2])
         /\ calls' = Append(calls, SetterCall("set_version", v))
    /\ UNCHANGED <<input, stream, it, entry, pc, acc, vpos, digits, state, outcome,
                   request, first, err, code, taken, dispatches>>

SetMethod ==
    /\ pc = "build"
    /\ Len(calls) < MaxSetters
    /\ \E m \in MethodArgs :
         /\ builder' = set_method(builder, m)
         /\ calls' = Append(calls, SetterCall("set_method", m))
    /\ UNCHANGED <<input, stream, it, entry, pc, acc, vpos, digits, state, outcome,
                   request, first, err, code, taken, dispatches>>

SetTarget ==
    /\ pc = "build"
    /\ Len(calls) < MaxSetters
    /\ \E t \in TargetArgs :
         /\ builder' = set_target(builder, t)
         /\ calls' = Append(calls, SetterCall("set_target", t))
    /\ UNCHANGED <<input, stream, it, entry, pc, acc, vpos, digits, state, outcome,
                   request, first, err, code, taken, dispatches>>

SetBody ==
    /\ pc = "build"
    /\ Len(calls) < MaxSetters
    /\ \E d \in BodyArgs :
         /\ builder' = set_body(builder, d)
         /\ calls' = Append(calls, SetterCall("set_body", d))
    /\ UNCHANGED <<input, stream, it, entry, pc, acc, vpos, digits, state, outcome,
                   request, first, err, code, taken, dispatches>>

AddHeader ==
    /\ pc = "build"
    /\ Len(calls) < MaxSetters
    /\ \E h \in HeaderArgs :
         /\ builder' = add_header(builder, h[1], h[2])
         /\ calls' = Append(calls, SetterCall("add_header", h))
    /\ UNCHANGED <<input, stream, it, entry, pc, acc, vpos, digits, state, outcome,
                   request, first, err, code, taken, dispatches>>

\* into_request takes the builder by value: no call follows it.
IntoRequest ==
    /\ pc = "build"
    /\ request' = into_request(builder)
    /\ pc' = "done"
    /\ UNCHANGED <<input, stream, it, entry, acc, vpos, digits, state, builder,
                   outcome, first, calls, err, code, taken, dispatches>>

(***************************************************************************)
(* A caller that holds a ParseError.  err is [e, by, arg]: the value, the  *)
(* constructor that made it and the status the caller gave it, if any.     *)
(***************************************************************************)
\* The status codes drawn for Generic: the ends of u16 and 400 + 0..StatusSpan.
StatusSpan == 60
Statuses == {0, 65535} \cup (400..(400 + StatusSpan))

\* A parser function returned Err(EOF) or Err(IllegalCharacter).
ParserError ==
    /\ entry = "error"
    /\ \E e \in {EOF, IllegalCharacter} : err' = Some([e |-> e, by |-> "parser", arg |-> None])
    /\ code' = None
    /\ UNCHANGED <<input, stream, it, entry, pc, acc, vpos, digits, state, builder,
                   outcome, request, first, calls, taken, dispatches>>

NewGeneric ==
    /\ entry = "error"
    /\ \E s \in Statuses : err' = Some([e |-> new_generic(s), by |-> "new_generic", arg |-> Some(s)])
    /\ code' = None
    /\ UNCHANGED <<input, stream, it, entry, pc, acc, vpos, digits, state, builder,
                   outcome, request, first, calls, taken, dispatches>>

NewBadRequest ==
    /\ entry = "error"
    /\ err' = Some([e |-> new_bad_request, by |-> "new_bad_request", arg |-> None])
    /\ code' = None
    /\ UNCHANGED <<input, stream, it, entry, pc, acc, vpos, digits, state, builder,
                   outcome, request, first, calls, taken, dispatches>>

HttpResponseCode ==
    /\ entry = "error"
    /\ err # None
    /\ code' = Some(http_response_code(err[1].e))
    /\ UNCHANGED <<input, stream, it, entry, pc, acc, vpos, digits, state, builder,
                   outcome, request, first, calls, err, taken, dispatches>>

(***************************************************************************)
(* Specifications.                                                         *)
(***************************************************************************)
\* What every specification starts from, but for the source and the entry.
Fresh ==
    /\ stream = input
    /\ it = StreamReaderFrom
    /\ acc = <<>>
    /\ vpos = 0
    /\ digits = <<>>
    /\ state = StartState
    /\ builder = RequestBuilderNew
    /\ outcome = "running"
    /\ request = None
    /\ first = None
    /\ calls = <<>>
    /\ err = None
    /\ code = None
    /\ taken = <<>>
    /\ dispatches = 0

\* tests::test_parse_request_line: parse_request_line on a fresh builder and
\* cursor.
InitLine ==
    /\ input \in LineInputs
    /\ entry = "line"
    /\ pc = "method"
    /\ Fresh

NextLine == ParseMethod \/ ParseTarget \/ ParseVersion

SpecLine == InitLine /\ [][NextLine]_vars

\* parse_headers on a fresh builder and cursor.
InitHeaders ==
    /\ input \in HeaderInputs
    /\ entry = "headers"
    /\ pc = "headers"
    /\ Fresh

NextHeaders == ParseHeaders

SpecHeaders == InitHeaders /\ [][NextHeaders]_vars

\* Request::from.
Init ==
    /\ input \in FromInputs
    /\ entry = "from"
    /\ pc = "method"
    /\ Fresh

Next == ParseMethod \/ ParseTarget \/ ParseVersion \/ ParseHeaders

Spec == Init /\ [][Next]_vars

\* "GET / HTTP/1.1" CR LF "A: 1" CR LF CR LF
LiveRequest ==
    LineOf(GET, <<47>>, 49, 49) \o BlockOf(<<HeaderLineOf(<<65>>, <<SP, 49>>)>>)

\* Request::from on one whole request, its prefixes and its one-byte
\* deviations.
InitLive ==
    /\ input \in Deviations({LiveRequest}, {0, CR, SP, 128})
    /\ entry = "from"
    /\ pc = "method"
    /\ Fresh

\* Request::from on its one thread: the loops of the parser run on while
\* they have a step to take, and a read of a finite source returns.
SpecLive == InitLive /\ [][Next]_vars /\ WF_vars(Next)

\* Request::from, and a second Request::from on the same bytes.
NextTwice == Next \/ Reparse

SpecTwice == Init /\ [][NextTwice]_vars

\* The cursor on a short source, driven call by call.
InitCursor ==
    /\ input \in SeqsUpTo({1, 2}, MaxStream)
    /\ entry = "cursor"
    /\ pc = "done"
    /\ Fresh

NextCursor == CallNext \/ CallStepBack

SpecCursor == InitCursor /\ [][NextCursor]_vars

\* The error model alone.
InitError ==
    /\ input = <<>>
    /\ entry = "error"
    /\ pc = "done"
    /\ Fresh

NextError == ParserError \/ NewGeneric \/ NewBadRequest \/ HttpResponseCode

SpecError == InitError /\ [][NextError]_vars

\* A fresh RequestBuilder, filled by its caller and then finished.
InitBuilder ==
    /\ input = <<>>
    /\ entry = "builder"
    /\ pc = "build"
    /\ Fresh

NextBuilder ==
    SetVersion \/ SetMethod \/ SetTarget \/ SetBody \/ AddHeader \/ IntoRequest

SpecBuilder == InitBuilder /\ [][NextBuilder]_vars

(***************************************************************************)
(* The grammar the claims speak of, read off the input bytes.              *)
(***************************************************************************)
Least(S) == CHOOSE j \in S : \A k \in S : j <= k

\* The first position >= i of s that holds b, or 0.
IndexFrom(s, b, i) ==
    LET P == {j \in i..Len(s) : s[j] = b} IN IF P = {} THEN 0 ELSE Least(P)

\* s has a first and a second space.
HasThreeParts(s) == IndexFrom(s, 32, 1) > 0 /\ IndexFrom(s, 32, IndexFrom(s, 32, 1) + 1) > 0

MethodPart(s) == SubSeq(s, 1, IndexFrom(s, 32, 1) - 1)

TargetPart(s) ==
    SubSeq(s, IndexFrom(s, 32, 1) + 1, IndexFrom(s, 32, IndexFrom(s, 32, 1) + 1) - 1)

VersionPart(s) == SubSeq(s, IndexFrom(s, 32, IndexFrom(s, 32, 1) + 1) + 1, Len(s))

\* tchar of RFC 7230: "!#$%&'*+-.^_`|~", DIGIT, ALPHA.
TokenBytes ==
    {33, 35, 36, 37, 38, 39, 42, 43, 45, 46, 94, 95, 96, 124, 126}
    \cup (48..57) \cup (65..90) \cup (97..122)

\* The bytes a target may hold: '!', '#'..';', '=', '?'..'[', ']'..'z', '|', '~'.
AcceptedTargetBytes ==
    {33, 61, 124, 126} \cup (35..59) \cup (63..91) \cup (93..122)

\* The k-th byte of "HTTP/" DIGIT "." DIGIT CR LF is where r has it.
VersionByteOk(r, k) ==
    IF k <= 5 THEN r[k] = <<72, 84, 84, 80, 47>>[k]
    ELSE IF k = 6 \/ k = 8 THEN r[k] \in 48..57
    ELSE IF k = 7 THEN r[k] = 46
    ELSE IF k = 9 THEN r[k] = 13
    ELSE r[k] = 10

\* How many leading bytes of r follow "HTTP/" DIGIT "." DIGIT CR LF.
MatchLen(r) ==
    LET top == Min(10, Len(r)) IN
    CHOOSE k \in 0..top :
        /\ \A j \in 1..k : VersionByteOk(r, j)
        /\ (k = top \/ ~VersionByteOk(r, k + 1))

\* The nine verbs and their enum values.
KnownVerbs ==
    {<<<<71, 69, 84>>, "Get">>, <<<<80, 79, 83, 84>>, "Post">>,
     <<<<80, 65, 84, 67, 72>>, "Patch">>, <<<<68, 69, 76, 69, 84, 69>>, "Delete">>,
     <<<<80, 85, 84>>, "Put">>, <<<<72, 69, 65, 68>>, "Head">>,
     <<<<67, 79, 78, 78, 69, 67, 84>>, "Connect">>,
     <<<<79, 80, 84, 73, 79, 78, 83>>, "Options">>,
     <<<<84, 82, 65, 67, 69>>, "Trace">>}

\* s is M SP T SP "HTTP/" a "." b CR LF with M the name of verb v.
IsRequestLineOf(s, v) ==
    /\ HasThreeParts(s)
    /\ MethodPart(s) = v[1]
    /\ \A i \in 1..Len(TargetPart(s)) : TargetPart(s)[i] \in AcceptedTargetBytes
    /\ Len(VersionPart(s)) = 10
    /\ MatchLen(VersionPart(s)) = 10

(***************************************************************************)
(* C1: for every request line M SP T SP "HTTP/" a "." b CR LF with M one   *)
(* of the nine verbs, T of accepted target bytes and a, b digits,          *)
(* parse_request_line returns Ok and leaves the builder with method M's    *)
(* enum value, target T, version (a, b) as integers, no headers, no body.  *)
(***************************************************************************)
C1_WellFormedLine ==
    (entry = "line" /\ pc = "done") =>
        \A v \in KnownVerbs :
            IsRequestLineOf(input, v) =>
                /\ outcome = "Ok"
                /\ builder = [version |-> Some(<<VersionPart(input)[6] - 48,
                                                 VersionPart(input)[8] - 48>>),
                              method |-> Some([tag |-> v[2], name |-> <<>>]),
                              target |-> Some(TargetPart(input)),
                              headers |-> EmptyMap,
                              body |-> None]

\* "OPTIONS /| HTTP/1.1" has been parsed.
C1_Witness ==
    /\ entry = "line"
    /\ pc = "done"
    /\ IsRequestLineOf(input, <<<<79, 80, 84, 73, 79, 78, 83>>, "Options">>)
    /\ TargetPart(input) = <<47, 124>>
    /\ outcome = "Ok"
    /\ builder.version = Some(<<1, 1>>)

\* The method of s is a token and its target a run of target bytes, each of
\* one byte or more.
ValidMethodAndTarget(s) ==
    /\ HasThreeParts(s)
    /\ MethodPart(s) # <<>>
    /\ TargetPart(s) # <<>>
    /\ \A i \in 1..Len(MethodPart(s)) : MethodPart(s)[i] \in TokenBytes
    /\ \A i \in 1..Len(TargetPart(s)) : TargetPart(s)[i] \in AcceptedTargetBytes

\* r is "HTTP/" DIGIT "." DIGIT and then something other than CR LF.
MissingCRLF(r) == MatchLen(r) >= 8 /\ MatchLen(r) < 10

\* r starts with five bytes that are not "HTTP/".
WrongLiteral(r) == Len(r) >= 5 /\ MatchLen(r) < 5

\* r has a byte that is no digit where the major or the minor digit belongs.
NonDigit(r) ==
    \/ MatchLen(r) = 5 /\ Len(r) >= 6
    \/ MatchLen(r) = 7 /\ Len(r) >= 8

\* The parse of a line with a valid method and target and such a version
\* part has returned.
VersionDeviates ==
    /\ entry = "line"
    /\ pc = "done"
    /\ ValidMethodAndTarget(input)
    /\ \/ MissingCRLF(VersionPart(input))
       \/ WrongLiteral(VersionPart(input))
       \/ NonDigit(VersionPart(input))

(***************************************************************************)
(* C2, as claimed: a request line with a valid method and target that      *)
(* lacks the trailing CRLF, or has another literal than "HTTP/", or a      *)
(* non-digit for major or minor, fails with IllegalCharacter.              *)
(***************************************************************************)
C2_AlwaysIllegalCharacter == VersionDeviates => outcome = "IllegalCharacter"

(***************************************************************************)
(* C2, amended: such a line fails with IllegalCharacter, except that it    *)
(* fails with EOF when the stream ends where the CR or the LF is missing.  *)
(***************************************************************************)
C2_IllegalOrEOF ==
    VersionDeviates =>
        outcome = IF MatchLen(VersionPart(input)) = Len(VersionPart(input))
                  THEN "EOF"
                  ELSE "IllegalCharacter"

\* A line with ':' for the major digit has been refused.
C2_Witness ==
    /\ VersionDeviates
    /\ NonDigit(VersionPart(input))
    /\ VersionPart(input)[6] = 58
    /\ outcome = "IllegalCharacter"

(***************************************************************************)
(* The header grammar, read off the input bytes.                           *)
(***************************************************************************)
\* The first position of s that holds no byte of S, or 0.
FirstOutside(s, S) ==
    LET P == {j \in 1..Len(s) : s[j] \notin S} IN IF P = {} THEN 0 ELSE Least(P)

\* The bytes of a header value on the wire: HT, SP..'~', 0x80..0xFF.
ValueBytes == {9} \cup (32..126) \cup (128..255)

Walked(kind, lines) == [kind |-> kind, lines |-> lines]

\* s as a header block: the <<name, text>> of its complete lines, and how it
\* goes on: "end" (the blank line), "short" (it stops inside a line or a
\* line end), "badname", "badvalue" or "badeol" (a byte that may not stand
\* there).
RECURSIVE WalkBlock(_, _)
WalkBlock(s, lines) ==
    IF s = <<>> THEN Walked("short", lines)
    ELSE IF s[1] = 13
    THEN (IF Len(s) = 1 THEN Walked("short", lines)
          ELSE IF s[2] = 10 THEN Walked("end", lines)
          ELSE Walked("badeol", lines))
    ELSE LET i == FirstOutside(s, TokenBytes) IN
         IF i = 0 THEN Walked("short", lines)
         ELSE IF s[i] # 58 THEN Walked("badname", lines)
         ELSE LET after == SubSeq(s, i + 1, Len(s))
                  j == FirstOutside(after, ValueBytes)
              IN  IF j = 0 THEN Walked("short", lines)
                  ELSE IF after[j] # 13 THEN Walked("badvalue", lines)
                  ELSE IF Len(after) = j THEN Walked("short", lines)
                  ELSE IF after[j + 1] # 10 THEN Walked("badeol", lines)
                  ELSE WalkBlock(SubSeq(after, j + 2, Len(after)),
                                 Append(lines, <<SubSeq(s, 1, i - 1),
                                                 SubSeq(after, 1, j - 1)>>))

Block(s) == WalkBlock(s, <<>>)

\* The text after the colon without its leading spaces and tabs.
RECURSIVE StripOWS(_)
StripOWS(t) == IF t # <<>> /\ t[1] \in {32, 9} THEN StripOWS(Tail(t)) ELSE t

IsVisible(b) == b = 9 \/ b \in 32..126

\* The tab and 0x20..0x7E bytes of a value, in order.
VisibleOf(t) == SelectSeq(t, IsVisible)

\* The map from each name of lines to the value of its last line.
LastWins(lines) ==
    [n \in {lines[i][1] : i \in 1..Len(lines)} |->
        LET last == CHOOSE i \in 1..Len(lines) :
                        /\ lines[i][1] = n
                        /\ \A j \in (i + 1)..Len(lines) : lines[j][1] # n
        IN  VisibleOf(StripOWS(lines[last][2]))]

\* s as a request: "end", "short", or "bad" for a byte that may not stand
\* where it does.
RequestKind(s) ==
    LET i == FirstOutside(s, TokenBytes) IN
    IF i = 0 THEN "short"
    ELSE IF s[i] # 32 THEN "bad"
    ELSE LET t == SubSeq(s, i + 1, Len(s))
             j == FirstOutside(t, AcceptedTargetBytes)
         IN  IF j = 0 THEN "short"
             ELSE IF t[j] # 32 THEN "bad"
             ELSE LET r == SubSeq(t, j + 1, Len(t)) IN
                  IF MatchLen(r) = 10
                  THEN (IF Block(SubSeq(r, 11, Len(r))).kind \in {"end", "short"}
                        THEN Block(SubSeq(r, 11, Len(r))).kind
                        ELSE "bad")
                  ELSE IF MatchLen(r) = Len(r) THEN "short"
                  ELSE "bad"

(***************************************************************************)
(* C3: when the stream ends before the parse is complete, that is on every *)
(* proper prefix of an accepted request, Request::from returns Err(EOF),   *)
(* wherever in the request line or the header block the end falls.         *)
(***************************************************************************)
C3_TruncatedIsEOF ==
    (entry = "from" /\ pc = "done" /\ RequestKind(input) = "short") =>
        (outcome = "EOF" /\ request = None)

\* The stream ended inside the value of the second header line.
C3_Witness ==
    /\ entry = "from"
    /\ pc = "done"
    /\ RequestKind(input) = "short"
    /\ state.tag = "Value"
    /\ DOMAIN builder.headers # {}
    /\ outcome = "EOF"

(***************************************************************************)
(* C4: after a successful parse_headers the builder maps every header name *)
(* of the block to the value of the name's last line, names compared byte  *)
(* for byte, and has no other entry.                                       *)
(***************************************************************************)
C4_LastOccurrenceWins ==
    (entry = "headers" /\ pc = "done" /\ outcome = "Ok") =>
        /\ Block(input).kind = "end"
        /\ builder.headers = LastWins(Block(input).lines)

\* "A:1" then "A:2" has left A -> "2", and "A:1" then "a:2" two entries.
C4_Witness ==
    /\ entry = "headers"
    /\ pc = "done"
    /\ outcome = "Ok"
    /\ input = <<65, 58, 49, 13, 10, 65, 58, 50, 13, 10, 13, 10>>
    /\ builder.headers = [n \in {<<65>>} |-> <<50>>]

\* Some line of the block has a byte from 0x80 on after its colon.
HasHighByte(lines) ==
    \E i \in 1..Len(lines) : \E k \in 1..Len(lines[i][2]) : lines[i][2][k] >= 128

(***************************************************************************)
(* C5: a header value with bytes in 0x80..0xFF does not make parse_headers *)
(* fail, and what is stored is the value's tab and 0x20..0x7E bytes in     *)
(* order, the bytes from 0x80 on removed.                                  *)
(***************************************************************************)
C5_HighBytesDropped ==
    (/\ entry = "headers"
     /\ pc = "done"
     /\ Block(input).kind = "end"
     /\ HasHighByte(Block(input).lines)) =>
        /\ outcome = "Ok"
        /\ \A i \in 1..Len(Block(input).lines) :
              LET l == Block(input).lines[i] IN
              (\A j \in (i + 1)..Len(Block(input).lines) : Block(input).lines[j][1] # l[1])
                  => builder.headers[l[1]] = VisibleOf(StripOWS(l[2]))

\* "a: \t1 \x80" has been stored as "1 ".
C5_Witness ==
    /\ entry = "headers"
    /\ pc = "done"
    /\ input = BaseBlock3
    /\ outcome = "Ok"
    /\ builder.headers[<<97>>] = <<49, 32>>
    /\ builder.headers[<<65>>] = <<>>

(***************************************************************************)
(* C6: a byte of a header name that is neither a tchar nor ':' makes       *)
(* parse_headers fail with IllegalCharacter, and the builder holds the     *)
(* headers of the lines before it only.                                    *)
(***************************************************************************)
C6_BadNameByte ==
    (entry = "headers" /\ pc = "done" /\ Block(input).kind = "badname") =>
        /\ outcome = "IllegalCharacter"
        /\ builder.headers = LastWins(Block(input).lines)

\* "Bad Name: v" has been refused at its space.
C6_Witness ==
    /\ entry = "headers"
    /\ pc = "done"
    /\ input = BadNameExample
    /\ Block(input).kind = "badname"
    /\ outcome = "IllegalCharacter"
    /\ builder.headers = EmptyMap

(***************************************************************************)
(* C7: two parses of the same bytes, each with its own cursor and builder, *)
(* end alike: the same outcome, and on success equal Requests (version,    *)
(* method, target, headers, body), however the source cuts the bytes into  *)
(* reads.                                                                  *)
(***************************************************************************)
C7_SameTwice ==
    (entry = "from" /\ pc = "done" /\ first # None) =>
        /\ first[1].outcome = outcome
        /\ first[1].request = request

\* "GET / HTTP/1.1" with two header lines has been parsed twice.
C7_Witness ==
    /\ entry = "from"
    /\ pc = "done"
    /\ first # None
    /\ input = BaseLine1 \o BaseBlock3
    /\ outcome = "Ok"
    /\ request # None
    /\ DOMAIN request[1].headers = {<<65>>, <<97>>}

MethodTags ==
    {"Get", "Post", "Patch", "Delete", "Put", "Head", "Connect", "Options", "Trace",
     "Custom"}

(***************************************************************************)
(* C8: Request::from ends with a Request whose version, method and target  *)
(* are set, or with EOF, or with IllegalCharacter; no unwrap fails, and an *)
(* error comes with no Request.                                            *)
(***************************************************************************)
C8_ThreeOutcomes ==
    entry = "from" =>
        /\ outcome # "panic"
        /\ pc = "done" => outcome \in {"Ok", "EOF", "IllegalCharacter"}
        /\ outcome = "Ok" =>
              /\ request # None
              /\ request[1].version \in (0..9) \X (0..9)
              /\ request[1].method.tag \in MethodTags
              /\ request[1].target \in Seq(Byte)
        /\ outcome \in {"EOF", "IllegalCharacter"} => request = None

\* A request with a dropped 0xFF in a header value has been returned.
C8_Witness ==
    /\ entry = "from"
    /\ pc = "done"
    /\ outcome = "Ok"
    /\ request # None
    /\ request[1].method = Fixed("Get")
    /\ request[1].headers = [n \in {<<65>>, <<97>>} |->
                                IF n = <<65>> THEN <<>> ELSE <<49, 32>>]

(***************************************************************************)
(* C9: the status of a ParseError is none for EOF, 400 for                 *)
(* IllegalCharacter and the caller's status for Generic; new_bad_request   *)
(* gives 400.                                                              *)
(***************************************************************************)
C9_StatusOfError ==
    (entry = "error" /\ err # None /\ code # None) =>
        /\ err[1].e = <<"EOF">> => code[1] = None
        /\ err[1].e = <<"IllegalCharacter">> => code[1] = Some(400)
        /\ err[1].by = "new_generic" => code[1] = err[1].arg
        /\ err[1].by = "new_bad_request" => code[1] = Some(400)

\* The status of a Generic error made with 65535 has been asked for.
C9_Witness ==
    /\ entry = "error"
    /\ err # None
    /\ err[1].by = "new_generic"
    /\ err[1].arg = Some(65535)
    /\ code = Some(Some(65535))

(***************************************************************************)
(* C10: after a next() that returned a byte b, a step_back() at once       *)
(* succeeds, and the next() after it returns b again without a read of the *)
(* source, also when b was the first byte of a refilled buffer.            *)
(***************************************************************************)
C10_StepBackReplays ==
    \A i \in 1..(Len(calls) - 1) :
        (calls[i].op = "next" /\ calls[i].ret # None /\ calls[i + 1].op = "step_back") =>
            /\ calls[i + 1].ret # None
            /\ (i + 2 <= Len(calls) /\ calls[i + 2].op = "next") =>
                  (calls[i + 2].ret = calls[i].ret /\ ~calls[i + 2].didRead)

\* The first byte of the second buffer has been taken, given back and taken
\* again.
C10_Witness ==
    /\ entry = "cursor"
    /\ Len(calls) >= 3
    /\ LET k == Len(calls) IN
         /\ calls[k - 2].op = "next" /\ calls[k - 2].didRead /\ calls[k - 2].ret # None
         /\ calls[k - 1].op = "step_back" /\ calls[k - 1].ret # None
         /\ calls[k].op = "next" /\ calls[k].ret = calls[k - 2].ret
    /\ Len(input) - Len(stream) > it.read
    /\ it.index = 1

(***************************************************************************)
(* C11: whatever setters a caller calls on a RequestBuilder, and in        *)
(* whatever order, into_request returns a Request exactly when set_version,*)
(* set_method and set_target have each been called at least once; the      *)
(* Request then holds the last argument of each of the three, the headers  *)
(* added (the last value of each name) and the last body set, or no body.  *)
(***************************************************************************)
\* The arguments of the calls of op, in call order.
Given(op) ==
    LET Is(c) == c.op = op
        cs == SelectSeq(calls, Is)
    IN  [i \in 1..Len(cs) |-> cs[i].arg]

\* The map from each name of hs to the value of its last pair.
LastValues(hs) ==
    [n \in {hs[i][1] : i \in 1..Len(hs)} |->
        hs[CHOOSE i \in 1..Len(hs) :
              /\ hs[i][1] = n
              /\ \A j \in (i + 1)..Len(hs) : hs[j][1] # n][2]]

C11_IntoRequest ==
    (entry = "builder" /\ pc = "done") =>
        LET v == Given("set_version")
            m == Given("set_method")
            t == Given("set_target")
            d == Given("set_body")
            h == Given("add_header")
        IN  IF v # <<>> /\ m # <<>> /\ t # <<>>
            THEN request = Some([version |-> v[Len(v)], method |-> m[Len(m)],
                                 target |-> t[Len(t)], headers |-> LastValues(h),
                                 body |-> IF d = <<>> THEN None ELSE Some(d[Len(d)])])
            ELSE request = None

\* A Request came out of a builder whose version was set twice, to two
\* values.
C11_Witness ==
    /\ entry = "builder"
    /\ pc = "done"
    /\ request # None
    /\ Len(Given("set_version")) = 2
    /\ Given("set_version")[1] # Given("set_version")[2]

(***************************************************************************)
(* C12: the method of every Request that Request::from returns has a name  *)
(* of one byte or more, none of them a control character.                  *)
(***************************************************************************)
\* The bytes of the name of method m.
NameBytes(m) ==
    IF m.tag = "Custom" THEN m.name
    ELSE (CHOOSE v \in KnownVerbs : v[2] = m.tag)[1]

ControlBytes == (0..31) \cup {127}

C12_MethodNameNonEmpty ==
    (entry = "from" /\ outcome = "Ok" /\ request # None) =>
        /\ NameBytes(request[1].method) # <<>>
        /\ \A i \in 1..Len(NameBytes(request[1].method)) :
              NameBytes(request[1].method)[i] \notin ControlBytes

(***************************************************************************)
(* C13: parse_request_target takes the bytes of RFC 3986 only: a target it *)
(* has set holds no other byte, and a line whose target part has another   *)
(* byte before its closing space ends with IllegalCharacter.               *)
(***************************************************************************)
\* unreserved, gen-delims, sub-delims and '%' of RFC 3986.
Rfc3986Bytes ==
    (65..90) \cup (97..122) \cup (48..57) \cup {45, 46, 95, 126}
    \cup {58, 47, 63, 35, 91, 93, 64}
    \cup {33, 36, 38, 39, 40, 41, 42, 43, 44, 59, 61}
    \cup {37}

\* The bytes of s after its first space.
AfterMethod(s) == SubSeq(s, IndexFrom(s, 32, 1) + 1, Len(s))

C13_TargetIsRfc3986 ==
    entry = "line" =>
        /\ builder.target # None =>
              \A i \in 1..Len(builder.target[1]) : builder.target[1][i] \in Rfc3986Bytes
        /\ (/\ pc = "done"
            /\ IndexFrom(input, 32, 1) > 0
            /\ \A i \in 1..Len(MethodPart(input)) : MethodPart(input)[i] \in TokenBytes
            /\ FirstOutside(AfterMethod(input), Rfc3986Bytes) > 0
            /\ AfterMethod(input)[FirstOutside(AfterMethod(input), Rfc3986Bytes)] # 32)
           => outcome = "IllegalCharacter"

(***************************************************************************)
(* C14: a request line with no byte before its first space, or none        *)
(* between its two spaces, is parsed like any other: the empty method is   *)
(* Custom of no bytes, the empty target the empty string, and the outcome  *)
(* is that of the version part.                                            *)
(***************************************************************************)
\* s has two spaces, a token before the first and target bytes between them.
MethodAndTargetFit(s) ==
    /\ HasThreeParts(s)
    /\ \A i \in 1..Len(MethodPart(s)) : MethodPart(s)[i] \in TokenBytes
    /\ \A i \in 1..Len(TargetPart(s)) : TargetPart(s)[i] \in AcceptedTargetBytes

\* The outcome the version part r leads to.
VersionOutcome(r) ==
    IF MatchLen(r) = 10 THEN "Ok"
    ELSE IF MatchLen(r) = Len(r) THEN "EOF"
    ELSE "IllegalCharacter"

CurLine(t) ==
    LET P == {j \in 1..Len(t) : t[j] = 10}
        last == IF P = {} THEN 0 ELSE CHOOSE j \in P : \A k \in P : k <= j
    IN  SubSeq(t, last + 1, Len(t))

\* The bytes the cursor has yet to hand out: the rest of its buffer, then
\* the rest of the source.
Unread == SubSeq(it.buffer, it.index + 1, it.read) \o stream

\* The block that the lines of s make: each name ":" text CR LF, then CR LF.
BlockBytes(s) ==
    BlockOf([i \in 1..Len(Block(s).lines) |->
                HeaderLineOf(Block(s).lines[i][1], Block(s).lines[i][2])])

C15_EachByteOnce ==
    entry = "headers" =>
        /\ (pc = "headers" /\ state.tag = "Name") => state.name = CurLine(taken)
        /\ (pc = "headers" /\ state.tag = "Value") =>
              LET l == CurLine(taken)
                  c == IndexFrom(l, 58, 1)
              IN  /\ c > 0
                  /\ state.name = SubSeq(l, 1, c - 1)
                  /\ state.value = VisibleOf(StripOWS(SubSeq(l, c + 1, Len(l))))
        /\ (pc = "done" /\ outcome = "Ok") =>
              /\ taken = BlockBytes(input)
              /\ taken \o Unread = input
              /\ builder.headers = LastWins(Block(input).lines)

\* A block of two lines, one with whitespace before its value, has been
\* parsed, and the byte after the block is the next the cursor hands out.
C15_Witness ==
    /\ entry = "headers"
    /\ pc = "done"
    /\ outcome = "Ok"
    /\ Len(Block(input).lines) = 2
    /\ Len(input) = Len(taken) + 1
    /\ Unread = <<input[Len(input)]>>
    /\ \E i \in 1..2 : Block(input).lines[i][2] # StripOWS(Block(input).lines[i][2])

(***************************************************************************)
(* C16: no header value that parse_headers has stored begins with a space  *)
(* or a tab.                                                               *)
(***************************************************************************)
C16_NoLeadingOWS ==
    entry = "headers" =>
        \A n \in DOMAIN builder.headers :
            builder.headers[n] = <<>> \/ builder.headers[n][1] \notin {32, 9}

(***************************************************************************)
(* C17: the method is one of the nine verbs exactly when the bytes before  *)
(* the first space are that verb's upper-case name, byte for byte; any     *)
(* other bytes, "get" and "GETS" among them, give Custom of exactly those  *)
(* bytes, so that no Custom holds the name of a verb.                      *)
(***************************************************************************)
C17_ExactMethodMatch ==
    (entry = "line" /\ builder.method # None) =>
        LET n == MethodPart(input)
            m == builder.method[1]
        IN  /\ \A v \in KnownVerbs : n = v[1] => m = [tag |-> v[2], name |-> <<>>]
            /\ (\A v \in KnownVerbs : n # v[1]) => m = [tag |-> "Custom", name |-> n]
            /\ m.tag = "Custom" => \A v \in KnownVerbs : m.name # v[1]

\* "GETS" has been parsed into Custom("GETS").
C17_Witness ==
    /\ entry = "line"
    /\ pc = "done"
    /\ outcome = "Ok"
    /\ MethodPart(input) = <<71, 69, 84, 83>>
    /\ builder.method = Some([tag |-> "Custom", name |-> <<71, 69, 84, 83>>])

(***************************************************************************)
(* C18: step_back() undoes one next() and no more: a step_back() whose     *)
(* call before it was not a next() that returned a byte (it was another    *)
(* step_back(), or a next() that returned None, or there was none) fails   *)
(* and leaves the cursor as it was.                                        *)
(***************************************************************************)
\* This step is a call of step_back: every call is the last of calls after
\* it.
StepBackStep == calls' # <<>> /\ calls'[Len(calls')].op = "step_back"

\* The call before this step was a next() that returned a byte.
AfterNextSome ==
    calls # <<>> /\ calls[Len(calls)].op = "next" /\ calls[Len(calls)].ret # None

C18_SingleSlotUndo ==
    [][(entry = "cursor" /\ StepBackStep /\ ~AfterNextSome) =>
          (calls'[Len(calls')].ret = None /\ it' = it)]_vars

(***************************************************************************)
(* C18, amended: step_back() undoes within the current buffer.  It         *)
(* succeeds exactly when the cursor's index is above 0, that is while a    *)
(* byte handed out since the latest refill has not been given back, and    *)
(* then moves the index one down; so it succeeds right after a next() that *)
(* returned a byte, fails right after giving back the first byte of a      *)
(* refilled buffer, and may succeed a second time in a row or after a      *)
(* next() that returned None.  A step_back() that fails leaves the cursor  *)
(* as it was.                                                              *)
(***************************************************************************)
C18_UndoWithinBuffer ==
    [][(entry = "cursor" /\ StepBackStep) =>
          LET ret == calls'[Len(calls')].ret
              k == Len(calls)
          IN  /\ (ret # None) <=> (it.index > 0)
              /\ ret = None => (it' = it /\ taken' = taken)
              /\ ret # None =>
                    /\ it' = [it EXCEPT !.index = it.index - 1]
                    /\ taken' = SubSeq(taken, 1, Len(taken) - 1)
              /\ AfterNextSome => ret # None
              /\ (/\ k >= 2
                  /\ calls[k - 1].op = "next"
                  /\ calls[k - 1].didRead
                  /\ calls[k - 1].ret # None
                  /\ calls[k].op = "step_back"
                  /\ calls[k].ret # None) => ret = None]_vars

\* Two step_back() in a row have succeeded, and one more right after a
\* next() that returned None.
C18_Witness ==
    /\ entry = "cursor"
    /\ Len(calls) >= 3
    /\ \/ /\ calls[Len(calls) - 1].op = "step_back"
          /\ calls[Len(calls) - 1].ret # None
          /\ calls[Len(calls)].op = "step_back"
          /\ calls[Len(calls)].ret # None
          /\ it.index = 0
       \/ /\ calls[Len(calls) - 1].op = "next"
          /\ calls[Len(calls) - 1].ret = None
          /\ calls[Len(calls)].op = "step_back"
          /\ calls[Len(calls)].ret # None

(***************************************************************************)
(* C19: however the source cuts its bytes into reads of 1..BufSize bytes,  *)
(* the bytes next() hands out are the source's bytes in order, none lost,  *)
(* doubled or moved at a refill, and None comes only after the last of     *)
(* them; so the outcome of Request::from and the Request it returns are    *)
(* those the bytes alone decide.                                           *)
(***************************************************************************)
\* The method that the bytes n name.
MethodOf(n) ==
    IF \E v \in KnownVerbs : v[1] = n
    THEN [tag |-> (CHOOSE v \in KnownVerbs : v[1] = n)[2], name |-> <<>>]
    ELSE [tag |-> "Custom", name |-> n]

\* The Request that the bytes s, a whole request, stand for.
RequestOf(s) ==
    [version |-> <<VersionPart(s)[6] - 48, VersionPart(s)[8] - 48>>,
     method |-> MethodOf(MethodPart(s)),
     target |-> TargetPart(s),
     headers |-> LastWins(Block(SubSeq(VersionPart(s), 11, Len(VersionPart(s)))).lines),
     body |-> <<>>]

C19_SplitTransparent ==
    entry = "from" =>
        /\ taken \o Unread = input
        /\ (pc = "done" /\ RequestKind(input) = "end") =>
              (outcome = "Ok" /\ request = <<RequestOf(input)>>)
        /\ (pc = "done" /\ RequestKind(input) = "short") =>
              (outcome = "EOF" /\ taken = input /\ request = <<>>)
        /\ (pc = "done" /\ RequestKind(input) = "bad") =>
              (outcome = "IllegalCharacter" /\ request = <<>>)

\* A request has been parsed whose last read brought one byte into a buffer
\* that an earlier read had filled.
C19_Witness ==
    /\ entry = "from"
    /\ pc = "done"
    /\ outcome = "Ok"
    /\ request = <<RequestOf(input)>>
    /\ it.read = 1
    /\ it.buffer[BufSize] # 0
    /\ stream = <<>>

(***************************************************************************)
(* C20: on every finite source Request::from comes to its end, with a      *)
(* Request or an error, and the inner loop of parse_headers runs its match *)
(* at most twice on a byte.                                                *)
(***************************************************************************)
C20_Terminates ==
    /\ <>(pc = "done" /\ outcome \in {"Ok", "EOF", "IllegalCharacter"})
    /\ [](dispatches <= 2)

\* parse_headers has returned IllegalCharacter for a byte that Start handed
\* on to Name.
C20_Witness ==
    /\ entry = "from"
    /\ pc = "done"
    /\ outcome = "IllegalCharacter"
    /\ state.tag = "Name"
    /\ dispatches = 2

(***************************************************************************)
(* C21: the lines of a header block end with CR LF and nothing else.  A    *)
(* byte other than LF after a CR that parse_headers took, at the end of a  *)
(* value or at the start of a line, ends it with IllegalCharacter; so does *)
(* an LF with no CR before it, in Start, Name, ValueLeadingWS or Value;    *)
(* and it returns Ok only on the LF that it reads in FinalNewLine.         *)
(***************************************************************************)
\* The latest byte taken is an LF with no CR before it.
BareLF(t) ==
    /\ t # <<>>
    /\ t[Len(t)] = 10
    /\ (Len(t) = 1 \/ t[Len(t) - 1] # 13)

\* The latest byte taken stands after a CR and is no LF.
LoneCR(t) ==
    /\ Len(t) >= 2
    /\ t[Len(t) - 1] = 13
    /\ t[Len(t)] # 10

C21_StrictCRLF ==
    entry = "headers" =>
        /\ (BareLF(taken) \/ LoneCR(taken)) =>
              (pc = "done" /\ outcome = "IllegalCharacter")
        /\ outcome = "Ok" =>
              /\ state.tag = "FinalNewLine"
              /\ Len(taken) >= 2
              /\ taken[Len(taken)] = 10
              /\ taken[Len(taken) - 1] = 13
              /\ (Len(taken) = 2 \/ taken[Len(taken) - 2] = 10)
        /\ (pc = "headers" /\ state.tag \in {"NewLine", "FinalNewLine"}) =>
              (taken # <<>> /\ taken[Len(taken)] = 13)
        /\ \A i \in 1..(Len(taken) - 1) :
              /\ taken[i] = 13 => (taken[i + 1] = 10 \/ i + 1 = Len(taken))
              /\ taken[i] = 10 => (i > 1 /\ taken[i - 1] = 13)

\* A value's CR was followed by a byte that is no LF, and parse_headers
\* returned IllegalCharacter in NewLine.
C21_Witness ==
    /\ entry = "headers"
    /\ pc = "done"
    /\ outcome = "IllegalCharacter"
    /\ state.tag = "NewLine"
    /\ LoneCR(taken)
    /\ builder.headers # EmptyMap

====
